---- MODULE Spec2Model ----
(***************************************************************************)
(* A model of the gobson_exp document builder (bson/bson.go), its generic  *)
(* Append, and the wire-message encoders of the sdb package.               *)
(*                                                                         *)
(* Go slices are modelled as they behave: a slice is (backing array,       *)
(* length), the capacity is the length of the backing array, append        *)
(* writes in place while the capacity suffices and otherwise copies into   *)
(* a fresh array.  Builders that were created from one another therefore   *)
(* alias the same bytes until one of them outgrows the array.              *)
(*                                                                         *)
(* Integers wider than TLC's are kept as byte sequences, most significant  *)
(* byte first ("words"); conversions between widths are done on the words. *)
(***************************************************************************)
EXTENDS Integers, Sequences, FiniteSets, TLC

VARIABLES
    heap,    \* the backing arrays: heap[a] is a byte sequence, Len = capacity
    bs,      \* the builders (Bson structs), in order of creation
    fuel,    \* what the exploration may still do: elements, builders, calls
    last,    \* the last generic Append: its input and how it ended
    wire,    \* the frame Encode wrote to the connection, and where
    obs,     \* the last exchange on a connection or byte-order call
    hist     \* the builder calls made so far, where they are recorded

vars == <<heap, bs, fuel, last, wire, obs, hist>>

(***************************************************************************)
(* Bounds of the exploration.                                              *)
(***************************************************************************)
MaxSteps == 3       \* calls explored over the whole interface
MaxBuilders == 3    \* builders explored over the nesting operations
MaxElems == 1       \* elements appended over the nesting operations

(***************************************************************************)
(* Program constants.                                                      *)
(***************************************************************************)
initialBufferSize == 64
eod == 0
eos == 0

BsonTypeEOD == 0
BsonTypeFloat64 == 1
BsonTypeString == 2
BsonTypeBson == 3
BsonTypeArray == 4
BsonTypeBinary == 5
BsonTypeObjectId == 7
BsonTypeBool == 8
BsonTypeDate == 9
BsonTypeNull == 10
BsonTypeRegEx == 11
BsonTypeInt32 == 16
BsonTypeTimestamp == 17
BsonTypeInt64 == 18
BsonTypeMaxKey == 127
BsonTypeMinKey == 255

(***************************************************************************)
(* Bytes and words.                                                        *)
(***************************************************************************)
Byte == 0..255

Zeros(n) == [i \in 1..n |-> 0]

Reverse(s) == [i \in 1..Len(s) |-> s[Len(s) + 1 - i]]

\* The 4-byte word (most significant first) of a small non-negative int.
ToWord32(n) ==
    << (n \div 16777216) % 256, (n \div 65536) % 256, (n \div 256) % 256, n % 256 >>

\* The value of a little-endian int32 (two's complement).
bytesToInt32(b) ==
    b[1] + 256 * b[2] + 65536 * b[3]
      + 16777216 * (IF b[4] >= 128 THEN b[4] - 256 ELSE b[4])

(***************************************************************************)
(* Go's append on a slice (arr, len) of heap h.                            *)
(***************************************************************************)
growslice(oldcap, needed) ==
    IF needed > 2 * oldcap THEN needed ELSE 2 * oldcap

SliceAppend(h, a, l, v) ==
    LET cap == Len(h[a])
        n == Len(v)
    IN  IF l + n <= cap
        THEN [heap |-> [h EXCEPT ![a] =
                          SubSeq(@, 1, l) \o v \o SubSeq(@, l + n + 1, cap)],
              arr |-> a, len |-> l + n]
        ELSE LET nc == growslice(cap, l + n)
             IN  [heap |-> Append(h, SubSeq(h[a], 1, l) \o v
                                       \o Zeros(nc - (l + n))),
                  arr |-> Len(h) + 1, len |-> l + n]

(***************************************************************************)
(* A program state st = [heap, bs] and the private helpers of Bson.        *)
(* Each returns the state after the call.                                  *)
(***************************************************************************)
appendBytes(st, b, v) ==
    LET r == SliceAppend(st.heap, st.bs[b].arr, st.bs[b].len, v)
    IN  [heap |-> r.heap,
         bs |-> [st.bs EXCEPT ![b].arr = r.arr, ![b].len = r.len]]

reserveInt32(st, b) == appendBytes(st, b, <<0, 0, 0, 0>>)

\* v is the int32 as a word; the bytes are stored least significant first.
setInt32(st, b, pos, v) ==
    [heap |-> [st.heap EXCEPT ![st.bs[b].arr] =
                 SubSeq(@, 1, pos) \o <<v[4], v[3], v[2], v[1]>>
                   \o SubSeq(@, pos + 5, Len(@))],
     bs |-> st.bs]

appendType(st, b, t) == appendBytes(st, b, <<t>>)

appendCString(st, b, v) == appendBytes(appendBytes(st, b, v), b, <<eos>>)

appendInt32(st, b, v) == appendBytes(st, b, Reverse(v))

appendInt64(st, b, v) == appendBytes(st, b, Reverse(v))

\* v is the bit pattern math.Float64bits(value), a 64-bit word.
appendFloat64(st, b, v) == appendInt64(st, b, v)

\* Raw(): raw[offset:]
RawOf(h, B, b) == SubSeq(h[B[b].arr], B[b].offset + 1, B[b].len)

Raw(st, b) == RawOf(st.heap, st.bs, b)

(***************************************************************************)
(* Results of a call: ok is FALSE when the call panicked; heap and bs are  *)
(* the state it left behind either way.                                    *)
(***************************************************************************)
Ok(st) == [ok |-> TRUE, msg |-> "", heap |-> st.heap, bs |-> st.bs]

Panic(st, msg) == [ok |-> FALSE, msg |-> msg, heap |-> st.heap, bs |-> st.bs]

St(r) == [heap |-> r.heap, bs |-> r.bs]

Cur == [heap |-> heap, bs |-> bs]

\* checkBeforeAppend without its second test.
checkFinishedOnly(st, b) == ~st.bs[b].finished

\* TRUE when checkBeforeAppend returns, FALSE when it panics.
checkBeforeAppend(st, b) == ~st.bs[b].finished /\ ~st.bs[b].inChild

\* The message checkBeforeAppend panics with.
checkMsg(st, b) ==
    IF st.bs[b].finished THEN "the bson is finished" ELSE "in child bson"

\* A Bson struct.  parent, isArray, index and held are not fields of the
\* struct: parent is the builder whose Start made this one, isArray and
\* index are the BsonArray wrapped around it, held tells whether the caller
\* was handed the builder (a child made inside the generic Append is not).
NewBuilder(a, l, off, par, isArr) ==
    [arr |-> a, len |-> l, offset |-> off, child |-> 0, inChild |-> FALSE,
     finished |-> FALSE, parent |-> par, isArray |-> isArr, index |-> 0,
     held |-> TRUE]

(***************************************************************************)
(* The public operations of Bson, as functions from the state before the   *)
(* call to the result of the call.                                         *)
(***************************************************************************)
\* Finish with the prefix taken before the terminator is appended.
FinishUncounted(st, b) ==
    IF ~checkBeforeAppend(st, b) THEN Panic(st, checkMsg(st, b))
    ELSE LET s1 == appendBytes(st, b, <<eod>>)
             s2 == setInt32(s1, b, s1.bs[b].offset,
                            ToWord32(st.bs[b].len - st.bs[b].offset))
         IN  Ok([heap |-> s2.heap,
                 bs |-> [s2.bs EXCEPT ![b].finished = TRUE]])

Finish(st, b) ==
    IF ~checkBeforeAppend(st, b) THEN Panic(st, checkMsg(st, b))
    ELSE LET s1 == appendBytes(st, b, <<eod>>)
             s2 == setInt32(s1, b, s1.bs[b].offset,
                            ToWord32(s1.bs[b].len - s1.bs[b].offset))
         IN  Ok([heap |-> s2.heap,
                 bs |-> [s2.bs EXCEPT ![b].finished = TRUE]])

AppendFloat64(st, b, name, value) ==
    IF ~checkBeforeAppend(st, b) THEN Panic(st, checkMsg(st, b))
    ELSE Ok(appendFloat64(
              appendCString(appendType(st, b, BsonTypeFloat64), b, name),
              b, value))

\* AppendString with the length of the bytes alone.
AppendStringUncounted(st, b, name, value) ==
    IF ~checkBeforeAppend(st, b) THEN Panic(st, checkMsg(st, b))
    ELSE Ok(appendCString(
              appendInt32(
                appendCString(appendType(st, b, BsonTypeString), b, name),
                b, ToWord32(Len(value))),
              b, value))

AppendString(st, b, name, value) ==
    IF ~checkBeforeAppend(st, b) THEN Panic(st, checkMsg(st, b))
    ELSE Ok(appendCString(
              appendInt32(
                appendCString(appendType(st, b, BsonTypeString), b, name),
                b, ToWord32(Len(value) + 1)),
              b, value))

\* value is another builder; its Raw() is read after the tag and the name
\* have been appended.
AppendBson(st, b, name, value) ==
    IF ~checkBeforeAppend(st, b) THEN Panic(st, checkMsg(st, b))
    ELSE LET s1 == appendCString(appendType(st, b, BsonTypeBson), b, name)
         IN  Ok(appendBytes(s1, b, Raw(s1, value)))

AppendBsonStart(st, b, name) ==
    IF ~checkBeforeAppend(st, b) THEN Panic(st, checkMsg(st, b))
    ELSE LET s1 == appendCString(appendType(st, b, BsonTypeBson), b, name)
             c == Len(s1.bs) + 1
             s2 == [heap |-> s1.heap,
                    bs |-> Append(s1.bs,
                             NewBuilder(s1.bs[b].arr, s1.bs[b].len,
                                        s1.bs[b].len, b, FALSE))]
             s3 == reserveInt32(s2, c)
         IN  Ok([heap |-> s3.heap,
                 bs |-> [s3.bs EXCEPT ![b].inChild = TRUE, ![b].child = c]])

AppendBsonEnd(st, b) ==
    IF ~st.bs[b].inChild THEN Panic(st, "not in child bson")
    ELSE IF st.bs[b].finished THEN Panic(st, "the bson is finished")
    ELSE LET c == st.bs[b].child
         IN  IF st.heap[st.bs[c].arr][st.bs[c].len] # eod
             THEN Panic(st, "the child bson is not finished")
             ELSE Ok([heap |-> st.heap,
                      bs |-> [st.bs EXCEPT ![b].arr = st.bs[c].arr,
                                           ![b].len = st.bs[c].len,
                                           ![b].child = 0,
                                           ![b].inChild = FALSE]])

AppendArray(st, b, name, value) ==
    IF ~checkBeforeAppend(st, b) THEN Panic(st, checkMsg(st, b))
    ELSE LET s1 == appendCString(appendType(st, b, BsonTypeArray), b, name)
         IN  Ok(appendBytes(s1, b, Raw(s1, value)))

AppendArrayStart(st, b, name) ==
    IF ~checkBeforeAppend(st, b) THEN Panic(st, checkMsg(st, b))
    ELSE LET s1 == appendCString(appendType(st, b, BsonTypeArray), b, name)
             c == Len(s1.bs) + 1
             s2 == [heap |-> s1.heap,
                    bs |-> Append(s1.bs,
                             NewBuilder(s1.bs[b].arr, s1.bs[b].len,
                                        s1.bs[b].len, b, TRUE))]
             s3 == reserveInt32(s2, c)
         IN  Ok([heap |-> s3.heap,
                 bs |-> [s3.bs EXCEPT ![b].inChild = TRUE, ![b].child = c]])

AppendArrayEnd(st, b) ==
    IF ~st.bs[b].inChild THEN Panic(st, "not in child array")
    ELSE IF st.bs[b].finished THEN Panic(st, "the bson is finished")
    ELSE LET c == st.bs[b].child
         IN  IF st.heap[st.bs[c].arr][st.bs[c].len] # eod
             THEN Panic(st, "the child array is not finished")
             ELSE Ok([heap |-> st.heap,
                      bs |-> [st.bs EXCEPT ![b].arr = st.bs[c].arr,
                                           ![b].len = st.bs[c].len,
                                           ![b].child = 0,
                                           ![b].inChild = FALSE]])

\* value = [isNil, Subtype, Data]: Data is a nil slice when isNil.
AppendBinary(st, b, name, value) ==
    IF ~checkBeforeAppend(st, b) THEN Panic(st, checkMsg(st, b))
    ELSE IF value.isNil THEN Panic(st, "binary is null")
    ELSE Ok(appendBytes(
              appendBytes(
                appendInt32(
                  appendCString(appendType(st, b, BsonTypeBinary), b, name),
                  b, ToWord32(Len(value.Data))),
                b, <<value.Subtype>>),
              b, value.Data))

\* ObjectId.IsValid: twelve bytes, not all of them zero.
IsValid(value) == Len(value) = 12 /\ \E i \in 1..Len(value) : value[i] # 0

AppendObjectId(st, b, name, value) ==
    IF ~checkBeforeAppend(st, b) THEN Panic(st, checkMsg(st, b))
    ELSE IF ~IsValid(value) THEN Panic(st, "invalid ObjectId")
    ELSE Ok(appendBytes(
              appendCString(appendType(st, b, BsonTypeObjectId), b, name),
              b, value))

AppendBool(st, b, name, value) ==
    IF ~checkBeforeAppend(st, b) THEN Panic(st, checkMsg(st, b))
    ELSE LET s1 == appendCString(appendType(st, b, BsonTypeBool), b, name)
         IN  IF value THEN Ok(appendBytes(s1, b, <<1>>))
             ELSE Ok(appendBytes(s1, b, <<0>>))

AppendDate(st, b, name, value) ==
    IF ~checkBeforeAppend(st, b) THEN Panic(st, checkMsg(st, b))
    ELSE Ok(appendInt64(
              appendCString(appendType(st, b, BsonTypeDate), b, name),
              b, value))

AppendNull(st, b, name) ==
    IF ~checkBeforeAppend(st, b) THEN Panic(st, checkMsg(st, b))
    ELSE Ok(appendCString(appendType(st, b, BsonTypeNull), b, name))

AppendRegex(st, b, name, value) ==
    IF ~checkBeforeAppend(st, b) THEN Panic(st, checkMsg(st, b))
    ELSE Ok(appendCString(
              appendCString(
                appendCString(appendType(st, b, BsonTypeRegEx), b, name),
                b, value.Pattern),
              b, value.Options))

AppendInt32(st, b, name, value) ==
    IF ~checkBeforeAppend(st, b) THEN Panic(st, checkMsg(st, b))
    ELSE Ok(appendInt32(
              appendCString(appendType(st, b, BsonTypeInt32), b, name),
              b, value))

AppendTimestamp(st, b, name, value) ==
    IF ~checkBeforeAppend(st, b) THEN Panic(st, checkMsg(st, b))
    ELSE Ok(appendInt32(
              appendInt32(
                appendCString(appendType(st, b, BsonTypeTimestamp), b, name),
                b, value.Increment),
              b, value.Second))

AppendInt64(st, b, name, value) ==
    IF ~checkBeforeAppend(st, b) THEN Panic(st, checkMsg(st, b))
    ELSE Ok(appendInt64(
              appendCString(appendType(st, b, BsonTypeInt64), b, name),
              b, value))

AppendMinKey(st, b, name) ==
    IF ~checkBeforeAppend(st, b) THEN Panic(st, checkMsg(st, b))
    ELSE Ok(appendCString(appendType(st, b, BsonTypeMinKey), b, name))

AppendMaxKey(st, b, name) ==
    IF ~checkBeforeAppend(st, b) THEN Panic(st, checkMsg(st, b))
    ELSE Ok(appendCString(appendType(st, b, BsonTypeMaxKey), b, name))

\* The array builder names its elements "0", "1", ... itself.
Itoa(n) == IF n < 10 THEN <<48 + n>> ELSE <<48 + (n \div 10), 48 + (n % 10)>>

(***************************************************************************)
(* Integer conversions of Go, on words.                                    *)
(***************************************************************************)
SignExtend(w, n) ==
    [i \in 1..n |-> IF i > n - Len(w) THEN w[i - (n - Len(w))]
                    ELSE IF w[1] >= 128 THEN 255 ELSE 0]

ZeroExtend(w, n) ==
    [i \in 1..n |-> IF i > n - Len(w) THEN w[i - (n - Len(w))] ELSE 0]

Truncate(w, n) == SubSeq(w, Len(w) - n + 1, Len(w))

\* Unsigned and signed order of two words of the same width.
ULess(a, b) ==
    \E i \in 1..Len(a) : a[i] < b[i] /\ \A j \in 1..(i - 1) : a[j] = b[j]

FlipSign(w) == [w EXCEPT ![1] = (@ + 128) % 256]

SLess(a, b) == ULess(FlipSign(a), FlipSign(b))

\* math.MinInt32 and math.MaxInt32, as int64.
MinInt32 == <<255, 255, 255, 255, 128, 0, 0, 0>>
MaxInt32 == <<0, 0, 0, 0, 127, 255, 255, 255>>

\* The range test with val < math.MaxInt32.
fitsBelowMaxInt32(val) == ~SLess(val, MinInt32) /\ SLess(val, MaxInt32)

\* val >= math.MinInt32 && val <= math.MaxInt32, val an int64
fitsInt32(val) == ~SLess(val, MinInt32) /\ ~SLess(MaxInt32, val)

\* The sign test left out.
neverNegative(val) == FALSE

\* val < 0, val an int64 or an int32
isNegative(val) == val[1] >= 128

noUint64 ==
    "bson has no uint64 type, and value is too large to fit correctly in an int64"

\* The arm shared by int64, uint64, int, uint and uintptr once val is int64.
AppendNarrowed(st, b, name, val) ==
    IF fitsInt32(val) THEN AppendInt32(st, b, name, Truncate(val, 4))
    ELSE AppendInt64(st, b, name, val)

(***************************************************************************)
(* The generic Append (BsonAppend here: Append is the sequence operator).  *)
(* value = [kind |-> ..., ...]: the dynamic type and the value.  An        *)
(* integer carries its bits in a word of its own width (int, uint and      *)
(* uintptr are 4 or 8 bytes wide, as the platform has them); a             *)
(* float carries the bit pattern of its value as a float64; a container    *)
(* carries elems, a sequence of [name, value] in the order they are        *)
(* visited.  A panic inside a nested call ends the whole call and leaves   *)
(* what was written so far.                                                *)
(***************************************************************************)
Unheld(r, c) == [r EXCEPT !.bs[c].held = FALSE]

RECURSIVE BsonAppend(_, _, _, _)
RECURSIVE AppendAll(_, _, _, _, _)

\* elems[i..] appended to builder c, each by Append; array elements are
\* named by their index.
AppendAll(st, c, elems, i, isArr) ==
    IF i > Len(elems) THEN Ok(st)
    ELSE LET r == BsonAppend(st, c,
                         IF isArr THEN Itoa(i - 1) ELSE elems[i].name,
                         elems[i].value)
         IN  IF ~r.ok THEN r
             ELSE AppendAll(St(r), c, elems, i + 1, isArr)

BsonAppend(st, b, name, value) ==
    CASE value.kind \in {"float32", "float64"} ->
           AppendFloat64(st, b, name, value.bits)
      [] value.kind \in {"int8", "int16"} ->
           AppendInt32(st, b, name, SignExtend(value.bits, 4))
      [] value.kind = "int32" ->
           AppendInt32(st, b, name, value.bits)
      [] value.kind = "int64" ->
           AppendNarrowed(st, b, name, value.bits)
      [] value.kind \in {"uint8", "uint16"} ->
           AppendInt32(st, b, name, ZeroExtend(value.bits, 4))
      [] value.kind = "uint32" ->
           IF isNegative(value.bits)
           THEN AppendInt64(st, b, name, ZeroExtend(value.bits, 8))
           ELSE AppendInt32(st, b, name, value.bits)
      [] value.kind = "uint64" ->
           IF isNegative(value.bits) THEN Panic(st, noUint64)
           ELSE AppendNarrowed(st, b, name, value.bits)
      [] value.kind = "int" ->
           AppendNarrowed(st, b, name, SignExtend(value.bits, 8))
      [] value.kind \in {"uint", "uintptr"} ->
           IF isNegative(ZeroExtend(value.bits, 8)) THEN Panic(st, noUint64)
           ELSE AppendNarrowed(st, b, name, ZeroExtend(value.bits, 8))
      [] value.kind = "bool" -> AppendBool(st, b, name, value.val)
      [] value.kind = "string" -> AppendString(st, b, name, value.val)
      [] value.kind = "nil" -> AppendNull(st, b, name)
      [] value.kind = "ObjectId" -> AppendObjectId(st, b, name, value.val)
      [] value.kind = "Date" -> AppendDate(st, b, name, value.bits)
      [] value.kind = "RegEx" -> AppendRegex(st, b, name, value.val)
      [] value.kind = "Timestamp" -> AppendTimestamp(st, b, name, value.val)
      [] value.kind = "Binary" -> AppendBinary(st, b, name, value.val)
      [] value.kind = "orderKey" ->
           IF value.val = "MaxKey" THEN AppendMaxKey(st, b, name)
           ELSE IF value.val = "MinKey" THEN AppendMinKey(st, b, name)
           ELSE Panic(st, "invalid orderkey")
      [] value.kind \in {"Map", "Doc", "map", "struct"} ->
           LET r1 == AppendBsonStart(st, b, name)
               c == Len(r1.bs)
               r2 == AppendAll(St(Unheld(r1, c)), c, value.elems, 1, FALSE)
               r3 == Finish(St(r2), c)
           IN  IF ~r1.ok THEN r1
               ELSE IF ~r2.ok THEN r2
               ELSE IF ~r3.ok THEN r3
               ELSE AppendBsonEnd(St(r3), b)
      [] value.kind \in {"slice", "array"} ->
           LET r1 == AppendArrayStart(st, b, name)
               c == Len(r1.bs)
               r2 == AppendAll(St(Unheld(r1, c)), c, value.elems, 1, TRUE)
               r3 == Finish(St(r2), c)
           IN  IF ~r1.ok THEN r1
               ELSE IF ~r2.ok THEN r2
               ELSE IF ~r3.ok THEN r3
               ELSE AppendArrayEnd(St(r3), b)
      [] value.kind = "ptr" ->
           IF value.isNil THEN AppendNull(st, b, name)
           ELSE BsonAppend(st, b, name, value.elem)
      [] OTHER -> Panic(st, "can't append to bson")

NewBson(st) ==
    LET s0 == [heap |-> Append(st.heap, Zeros(initialBufferSize)),
               bs |-> Append(st.bs,
                             NewBuilder(Len(st.heap) + 1, 0, 0, 0, FALSE))]
    IN  reserveInt32(s0, Len(s0.bs))

\* Raw() has no check: it returns for every builder.
RawReturns(st, b) == TRUE

\* Length(): the stored prefix, read as a signed little-endian int32.
Length(st, b) ==
    IF ~st.bs[b].finished THEN [ok |-> FALSE, n |-> 0]
    ELSE [ok |-> TRUE, n |-> bytesToInt32(Raw(st, b))]

\* Validate(): nil (TRUE) or an error (FALSE).  The walk over the elements
\* is done by the iterator, which always ends on documents the builder wrote.
Validate(st, b) ==
    IF ~st.bs[b].finished THEN FALSE
    ELSE IF Length(st, b).n # Len(Raw(st, b)) THEN FALSE
    ELSE TRUE

\* Map() and Doc(): panic on an unfinished builder, else materialise Raw().
Map(st, b) ==
    IF ~st.bs[b].finished THEN [ok |-> FALSE, doc |-> <<>>]
    ELSE [ok |-> TRUE, doc |-> Raw(st, b)]

Doc(st, b) ==
    IF ~st.bs[b].finished THEN [ok |-> FALSE, doc |-> <<>>]
    ELSE [ok |-> TRUE, doc |-> Raw(st, b)]

\* The name an element appended to builder b gets.
ElemName(b, name) == IF bs[b].isArray THEN Itoa(bs[b].index) ELSE name

(***************************************************************************)
(* Inputs.                                                                 *)
(***************************************************************************)
Names == {<<97>>}

Float64Values == {<<63, 240, 0, 0, 0, 0, 0, 0>>}
StringValues == {<<119>>, [i \in 1..56 |-> 120]}
BinaryValues == {[isNil |-> TRUE, Subtype |-> 0, Data |-> <<>>],
                 [isNil |-> FALSE, Subtype |-> 0, Data |-> <<1>>]}
ObjectIdValues == {Zeros(12), [i \in 1..12 |-> i]}
DateValues == {<<0, 0, 1, 2, 3, 4, 5, 6>>}
RegexValues == {[Pattern |-> <<112>>, Options |-> <<105>>]}
Int32Values == {<<255, 255, 255, 254>>}
TimestampValues == {[Increment |-> <<0, 0, 0, 1>>, Second |-> <<0, 0, 0, 2>>]}
Int64Values == {<<1, 1, 1, 1, 1, 1, 1, 1>>}

\* Values for the generic Append, one of each shape of its switch.
GenericValues ==
    { [kind |-> "int", bits |-> <<0, 0, 0, 1>>],
      [kind |-> "uint64", bits |-> <<128, 0, 0, 0, 0, 0, 0, 0>>],
      [kind |-> "nil"],
      [kind |-> "orderKey", val |-> "MinKey"],
      [kind |-> "Map",
       elems |-> << [name |-> <<120>>,
                     value |-> [kind |-> "bool", val |-> TRUE]] >>],
      [kind |-> "slice",
       elems |-> << [name |-> <<>>,
                     value |-> [kind |-> "string", val |-> <<119>>]] >>],
      [kind |-> "ptr", isNil |-> TRUE],
      [kind |-> "chan"] }

\* Integers for the generic Append: every integer kind at the edges of its
\* own range and of the int32 and int64 ranges.
W1 == {<<0>>, <<127>>, <<128>>, <<255>>}
W2 == {<<0, 0>>, <<127, 255>>, <<128, 0>>, <<255, 255>>}
W4 == {<<0, 0, 0, 0>>, <<0, 0, 0, 1>>, <<127, 255, 255, 255>>,
       <<128, 0, 0, 0>>, <<255, 255, 255, 255>>}
W8 == {<<0, 0, 0, 0, 0, 0, 0, 0>>,
       <<0, 0, 0, 0, 127, 255, 255, 255>>,
       <<0, 0, 0, 0, 128, 0, 0, 0>>,
       <<0, 0, 0, 0, 255, 255, 255, 255>>,
       <<0, 0, 0, 1, 0, 0, 0, 0>>,
       <<127, 255, 255, 255, 255, 255, 255, 255>>,
       <<128, 0, 0, 0, 0, 0, 0, 0>>,
       <<255, 255, 255, 255, 127, 255, 255, 255>>,
       <<255, 255, 255, 255, 128, 0, 0, 0>>,
       <<255, 255, 255, 255, 255, 255, 255, 255>>}

IntegerValues ==
    [kind : {"int8", "uint8"}, bits : W1]
      \cup [kind : {"int16", "uint16"}, bits : W2]
      \cup [kind : {"int32", "uint32"}, bits : W4]
      \cup [kind : {"int64", "uint64"}, bits : W8]
      \cup [kind : {"int", "uint", "uintptr"}, bits : W4 \cup W8]

Builders == {b \in 1..Len(bs) : bs[b].held}

(***************************************************************************)
(* The actions: one per operation, enabled when the call returns.  A call  *)
(* that panics aborts the program at the call site; the typed appends,     *)
(* Finish, the Starts and the Ends panic before they change anything.      *)
(***************************************************************************)
Spend(e, b) ==
    /\ last.ok
    /\ fuel.e >= e /\ fuel.b >= b /\ fuel.s >= 1
    /\ fuel' = [e |-> fuel.e - e, b |-> fuel.b - b, s |-> fuel.s - 1]

\* An element append on b that ended as r.
Appended(b, r) ==
    /\ Spend(1, 0)
    /\ r.ok
    /\ heap' = r.heap
    /\ bs' = IF bs[b].isArray
             THEN [r.bs EXCEPT ![b].index = @ + 1] ELSE r.bs
    /\ UNCHANGED <<last, wire, obs, hist>>

DoNewBson ==
    /\ Spend(0, 1)
    /\ heap' = NewBson(Cur).heap
    /\ bs' = NewBson(Cur).bs
    /\ UNCHANGED <<last, wire, obs, hist>>

DoFinish(b) ==
    /\ Spend(0, 0)
    /\ Finish(Cur, b).ok
    /\ heap' = Finish(Cur, b).heap
    /\ bs' = Finish(Cur, b).bs
    /\ UNCHANGED <<last, wire, obs, hist>>

DoAppendFloat64(b, name, v) ==
    Appended(b, AppendFloat64(Cur, b, ElemName(b, name), v))

DoAppendString(b, name, v) ==
    Appended(b, AppendString(Cur, b, ElemName(b, name), v))

DoAppendBinary(b, name, v) ==
    Appended(b, AppendBinary(Cur, b, ElemName(b, name), v))

DoAppendObjectId(b, name, v) ==
    Appended(b, AppendObjectId(Cur, b, ElemName(b, name), v))

DoAppendBool(b, name, v) ==
    Appended(b, AppendBool(Cur, b, ElemName(b, name), v))

DoAppendDate(b, name, v) ==
    Appended(b, AppendDate(Cur, b, ElemName(b, name), v))

DoAppendNull(b, name) ==
    Appended(b, AppendNull(Cur, b, ElemName(b, name)))

DoAppendRegex(b, name, v) ==
    Appended(b, AppendRegex(Cur, b, ElemName(b, name), v))

DoAppendInt32(b, name, v) ==
    Appended(b, AppendInt32(Cur, b, ElemName(b, name), v))

DoAppendTimestamp(b, name, v) ==
    Appended(b, AppendTimestamp(Cur, b, ElemName(b, name), v))

DoAppendInt64(b, name, v) ==
    Appended(b, AppendInt64(Cur, b, ElemName(b, name), v))

DoAppendMinKey(b, name) ==
    Appended(b, AppendMinKey(Cur, b, ElemName(b, name)))

DoAppendMaxKey(b, name) ==
    Appended(b, AppendMaxKey(Cur, b, ElemName(b, name)))

\* AppendBson / AppendArray embed the Raw() of another builder.
DoAppendBson(b, name, v) ==
    /\ ~bs[v].isArray
    /\ Appended(b, AppendBson(Cur, b, ElemName(b, name), v))

DoAppendArray(b, name, v) ==
    /\ bs[v].isArray
    /\ Appended(b, AppendArray(Cur, b, ElemName(b, name), v))

Started(b, r) ==
    /\ Spend(0, 1)
    /\ r.ok
    /\ heap' = r.heap
    /\ bs' = IF bs[b].isArray
             THEN [r.bs EXCEPT ![b].index = @ + 1] ELSE r.bs
    /\ UNCHANGED <<last, wire, obs, hist>>

DoAppendBsonStart(b, name) ==
    Started(b, AppendBsonStart(Cur, b, ElemName(b, name)))

DoAppendArrayStart(b, name) ==
    Started(b, AppendArrayStart(Cur, b, ElemName(b, name)))

Ended(b, r) ==
    /\ Spend(0, 0)
    /\ r.ok
    /\ heap' = r.heap
    /\ bs' = r.bs
    /\ UNCHANGED <<last, wire, obs, hist>>

DoAppendBsonEnd(b) == Ended(b, AppendBsonEnd(Cur, b))

DoAppendArrayEnd(b) == Ended(b, AppendArrayEnd(Cur, b))

\* The generic Append, with r.ok as its guard.
DoAppend(b, name, v) ==
    Appended(b, BsonAppend(Cur, b, ElemName(b, name), v))

\* No generic Append observed yet.
NoCall == [kind |-> "none", ok |-> TRUE, msg |-> "", b |-> 0,
           blocked |-> FALSE, pre |-> <<>>, post |-> <<>>,
           arg |-> [kind |-> "none"]]

\* Nothing exchanged yet.
NoObs == [kind |-> "none"]

\* Nothing written to the connection yet.
NoFrame == [kind |-> "none", order |-> "none", Length |-> 0, NameLength |-> 0,
            FixedSize |-> 0, w |-> [out |-> <<>>, docs |-> <<>>]]

InitBuilder ==
    LET s == NewBson([heap |-> <<>>, bs |-> <<>>])
    IN  /\ heap = s.heap
        /\ bs = s.bs
        /\ last = NoCall
        /\ wire = NoFrame
        /\ obs = NoObs
        /\ hist = <<>>

\* The whole interface, a few calls deep.
Init ==
    /\ InitBuilder
    /\ fuel = [e |-> MaxSteps, b |-> MaxSteps, s |-> MaxSteps]

Next ==
    \/ DoNewBson
    \/ \E b \in Builders : DoFinish(b)
    \/ \E b \in Builders, n \in Names, v \in Float64Values : DoAppendFloat64(b, n, v)
    \/ \E b \in Builders, n \in Names, v \in StringValues : DoAppendString(b, n, v)
    \/ \E b \in Builders, n \in Names, v \in Builders : DoAppendBson(b, n, v)
    \/ \E b \in Builders, n \in Names : DoAppendBsonStart(b, n)
    \/ \E b \in Builders : DoAppendBsonEnd(b)
    \/ \E b \in Builders, n \in Names, v \in Builders : DoAppendArray(b, n, v)
    \/ \E b \in Builders, n \in Names : DoAppendArrayStart(b, n)
    \/ \E b \in Builders : DoAppendArrayEnd(b)
    \/ \E b \in Builders, n \in Names, v \in BinaryValues : DoAppendBinary(b, n, v)
    \/ \E b \in Builders, n \in Names, v \in ObjectIdValues : DoAppendObjectId(b, n, v)
    \/ \E b \in Builders, n \in Names, v \in BOOLEAN : DoAppendBool(b, n, v)
    \/ \E b \in Builders, n \in Names, v \in DateValues : DoAppendDate(b, n, v)
    \/ \E b \in Builders, n \in Names : DoAppendNull(b, n)
    \/ \E b \in Builders, n \in Names, v \in RegexValues : DoAppendRegex(b, n, v)
    \/ \E b \in Builders, n \in Names, v \in Int32Values : DoAppendInt32(b, n, v)
    \/ \E b \in Builders, n \in Names, v \in TimestampValues : DoAppendTimestamp(b, n, v)
    \/ \E b \in Builders, n \in Names, v \in Int64Values : DoAppendInt64(b, n, v)
    \/ \E b \in Builders, n \in Names : DoAppendMinKey(b, n)
    \/ \E b \in Builders, n \in Names : DoAppendMaxKey(b, n)
    \/ \E b \in Builders, n \in Names, v \in GenericValues : DoAppend(b, n, v)

Spec == Init /\ [][Next]_vars

(***************************************************************************)
(* The generic Append on integers: every call is observed in last, with    *)
(* its input, whether the receiver was finished or had an open child, and  *)
(* the receiver's bytes before the call.  A call that panics is the last.  *)
(***************************************************************************)
MaxCalls == 1

Observed(b, v, r) ==
    /\ Spend(1, 0)
    /\ heap' = r.heap
    /\ bs' = r.bs
    /\ last' = [kind |-> "Append", ok |-> r.ok, msg |-> r.msg, b |-> b,
                blocked |-> ~checkBeforeAppend(Cur, b),
                pre |-> Raw(Cur, b), post |-> Raw(St(r), b), arg |-> v]
    /\ UNCHANGED <<wire, obs, hist>>

DoAppendInteger(b, name, v) == Observed(b, v, BsonAppend(Cur, b, name, v))

InitAppend ==
    /\ InitBuilder
    /\ fuel = [e |-> MaxCalls, b |-> 1, s |-> MaxCalls + 2]

NextAppend ==
    \/ \E b \in Builders, n \in Names, v \in IntegerValues :
          DoAppendInteger(b, n, v)
    \/ \E b \in Builders : DoFinish(b)
    \/ \E b \in Builders, n \in Names : DoAppendBsonStart(b, n)

SpecAppend == InitAppend /\ [][NextAppend]_vars

\* The nesting operations, as deep as the builders and elements allow.
NestSteps == 4 * MaxBuilders + MaxElems

InitNest ==
    /\ InitBuilder
    /\ fuel = [e |-> MaxElems, b |-> MaxBuilders - 1, s |-> NestSteps]

NextNest ==
    \/ DoNewBson
    \/ \E b \in Builders : DoFinish(b)
    \/ \E b \in Builders, n \in Names : DoAppendNull(b, n)
    \/ \E b \in Builders, n \in Names, v \in BOOLEAN : DoAppendBool(b, n, v)
    \/ \E b \in Builders, n \in Names, v \in Int32Values : DoAppendInt32(b, n, v)
    \/ \E b \in Builders, n \in Names, v \in StringValues : DoAppendString(b, n, v)
    \/ \E b \in Builders, n \in Names, v \in Builders : DoAppendBson(b, n, v)
    \/ \E b \in Builders, n \in Names, v \in Builders : DoAppendArray(b, n, v)
    \/ \E b \in Builders, n \in Names : DoAppendBsonStart(b, n)
    \/ \E b \in Builders : DoAppendBsonEnd(b)
    \/ \E b \in Builders, n \in Names : DoAppendArrayStart(b, n)
    \/ \E b \in Builders : DoAppendArrayEnd(b)

SpecNest == InitNest /\ [][NextNest]_vars

(***************************************************************************)
(* The wire messages of package sdb.  A message is a record of the fields  *)
(* of its struct; the writer w is the bytes written so far (out) and,      *)
(* beside it, where each embedded document was put (docs).                 *)
(***************************************************************************)
msgHeaderSize == 28

UpdateReqMsg == 2001
InsertReqMsg == 2002
QueryReqMsg == 2004
DeleteReqMsg == 2006
DisconnectReqMsg == 2008

ByteOrders == {"LittleEndian", "BigEndian"}

\* binary.ByteOrder: PutUint16, PutUint32, PutUint64 and Uint32.
PutUint16(order, n) ==
    IF order = "BigEndian" THEN <<n \div 256, n % 256>>
    ELSE <<n % 256, n \div 256>>

PutUint32(order, n) ==
    IF order = "BigEndian" THEN ToWord32(n) ELSE Reverse(ToWord32(n))

PutUint64(order, n) ==
    IF order = "BigEndian" THEN ZeroExtend(ToWord32(n), 8)
    ELSE Reverse(ZeroExtend(ToWord32(n), 8))

Uint32(order, b) ==
    IF order = "BigEndian"
    THEN bytesToInt32(Reverse(SubSeq(b, 1, 4)))
    ELSE bytesToInt32(SubSeq(b, 1, 4))

\* w.Write(p)
Write(w, p) == [w EXCEPT !.out = @ \o p]

\* The next multiple of align at or above n.
alignedSize(n, align) == ((n + align - 1) \div align) * align

\* The documents handed to the messages: finished builders holding 5, 7, 8
\* and 10 bytes, one for each remainder of a length by 4.
Built(elems) ==
    LET s0 == NewBson([heap |-> <<>>, bs |-> <<>>])
    IN  St(Finish(St(AppendAll(s0, 1, elems, 1, FALSE)), 1))

NullElem(name) == [name |-> name, value |-> [kind |-> "nil"]]

Documents ==
    { Built(<<>>), Built(<<NullElem(<<>>)>>), Built(<<NullElem(<<97>>)>>),
      Built(<<NullElem(<<97>>), NullElem(<<>>)>>) }

\* A nil *bson.Bson.
Nil == [heap |-> <<>>, bs |-> <<>>]

\* The package's empty document, {}.
emptyBson == Built(<<>>)

MsgHeaderEncode(w, m, order) ==
    Write(w, PutUint32(order, m.Length) \o PutUint32(order, m.OpCode)
               \o PutUint32(order, m.Tid) \o PutUint64(order, m.RouteId)
               \o PutUint64(order, m.RequestId))

\* A document written without padding after it.
writeBsonUnpadded(w, b) ==
    Write([w EXCEPT !.docs = Append(@, [at |-> Len(w.out),
                                        len |-> Len(Raw(b, 1))])],
          Raw(b, 1))

writeBson(w, b) ==
    LET w1 == Write([w EXCEPT !.docs = Append(@, [at |-> Len(w.out),
                                                  len |-> Len(Raw(b, 1))])],
                    Raw(b, 1))
        paddingLen == alignedSize(Length(b, 1).n, 4) - Length(b, 1).n
    IN  IF paddingLen > 0 THEN Write(w1, Zeros(paddingLen)) ELSE w1

\* The 16 bytes every body starts with.
Prelude(m, order) ==
    PutUint32(order, m.Version) \o PutUint16(order, m.W)
      \o PutUint16(order, m.padding) \o PutUint32(order, m.Flags)
      \o PutUint32(order, m.NameLength)

\* The name with its padding aligned on NameLength.
writeNameAlignedOnLength(w, m) ==
    LET w1 == Write(w, m.Name)
        paddingLen == alignedSize(m.NameLength, 4) - m.NameLength
    IN  IF paddingLen > 0 THEN Write(w1, Zeros(paddingLen)) ELSE w1

\* The name and the padding after it.
writeName(w, m) ==
    LET w1 == Write(w, m.Name)
        paddingLen == alignedSize(m.NameLength + 1, 4) - m.NameLength
    IN  IF paddingLen > 0 THEN Write(w1, Zeros(paddingLen)) ELSE w1

RECURSIVE writeDocs(_, _, _, _)
\* The documents of a message in their order; a nil one is skipped, or
\* replaced by emptyBson where the encoder does so.
writeDocs(w, docs, i, orEmpty) ==
    IF i > Len(docs) THEN w
    ELSE IF docs[i] # Nil THEN writeDocs(writeBson(w, docs[i]), docs, i + 1, orEmpty)
    ELSE IF orEmpty THEN writeDocs(writeBson(w, emptyBson), docs, i + 1, orEmpty)
    ELSE writeDocs(w, docs, i + 1, orEmpty)

DisconnectMsgEncode(w, m, order) == MsgHeaderEncode(w, m, order)

QueryMsgFixedSize == msgHeaderSize + 32

QueryMsgEncode(w, m, order) ==
    LET w1 == MsgHeaderEncode(w, m, order)
        w2 == Write(w1, Prelude(m, order) \o PutUint64(order, m.SkipNum)
                          \o PutUint64(order, m.ReturnNum))
    IN  writeDocs(writeName(w2, m), m.docs, 1, FALSE)

InsertMsgFixedSize == msgHeaderSize + 16

InsertMsgEncode(w, m, order) ==
    LET w1 == MsgHeaderEncode(w, m, order)
        w2 == Write(w1, Prelude(m, order))
    IN  writeDocs(writeName(w2, m), m.docs, 1, FALSE)

DeleteMsgFixedSize == msgHeaderSize + 16

DeleteMsgEncode(w, m, order) ==
    LET w1 == MsgHeaderEncode(w, m, order)
        w2 == Write(w1, Prelude(m, order))
    IN  writeDocs(writeName(w2, m), m.docs, 1, TRUE)

UpdateMsgFixedSize == msgHeaderSize + 16

UpdateMsgEncode(w, m, order) ==
    LET w1 == MsgHeaderEncode(w, m, order)
        w2 == Write(w1, Prelude(m, order))
    IN  writeDocs(writeName(w2, m), m.docs, 1, TRUE)

(***************************************************************************)
(* The constructors.  Only NewDisconnectMsg is in the source; the others   *)
(* follow the frame layout: Length is the size of the whole frame and      *)
(* NameLength the number of bytes of the name.                             *)
(***************************************************************************)
Header(length, opCode) ==
    [Length |-> length, OpCode |-> opCode, Tid |-> 0, RouteId |-> 0,
     RequestId |-> 0]

NewDisconnectMsg == Header(msgHeaderSize, DisconnectReqMsg)

RECURSIVE docsSize(_, _, _)
docsSize(docs, i, orEmpty) ==
    IF i > Len(docs) THEN 0
    ELSE docsSize(docs, i + 1, orEmpty)
           + (IF docs[i] # Nil THEN alignedSize(Length(docs[i], 1).n, 4)
              ELSE IF orEmpty THEN alignedSize(Length(emptyBson, 1).n, 4)
              ELSE 0)

NewMsg(opCode, fixedSize, name, docs, orEmpty) ==
    [Length |-> fixedSize + alignedSize(Len(name) + 1, 4)
                  + docsSize(docs, 1, orEmpty),
     OpCode |-> opCode, Tid |-> 0, RouteId |-> 0, RequestId |-> 0,
     Version |-> 1, W |-> 1, padding |-> 0, Flags |-> 0,
     NameLength |-> Len(name), SkipNum |-> 0, ReturnNum |-> 255,
     Name |-> name, docs |-> docs]

NewQueryMsg(name, docs) ==
    NewMsg(QueryReqMsg, QueryMsgFixedSize, name, docs, FALSE)

NewInsertMsg(name, docs) ==
    NewMsg(InsertReqMsg, InsertMsgFixedSize, name, docs, FALSE)

NewDeleteMsg(name, docs) ==
    NewMsg(DeleteReqMsg, DeleteMsgFixedSize, name, docs, TRUE)

NewUpdateMsg(name, docs) ==
    NewMsg(UpdateReqMsg, UpdateMsgFixedSize, name, docs, TRUE)

\* Collection names of 0 to 4 bytes.
CollectionNames ==
    {<<>>, <<99>>, <<99, 46>>, <<99, 46, 100>>, <<99, 46, 100, 101>>}

MaybeDocument == Documents \cup {Nil}

NewWriter == [out |-> <<>>, docs |-> <<>>]

\* What is kept of an Encode: the message's sizes and what was written.
Frame(kind, m, order, fixedSize, w) ==
    [kind |-> kind, order |-> order, Length |-> m.Length,
     NameLength |-> IF kind = "Disconnect" THEN 0 ELSE m.NameLength,
     FixedSize |-> fixedSize, w |-> w]

\* The Encodes, each on a connection nothing was written to: the message
\* m is encoded in the given order and w is what Encode wrote.
DisconnectEncoded(m, order, w) ==
    /\ wire.kind = "none"
    /\ wire' = Frame("Disconnect", m, order, msgHeaderSize, w)
    /\ UNCHANGED <<heap, bs, fuel, last, obs, hist>>

DoEncodeDisconnect(order) ==
    DisconnectEncoded(NewDisconnectMsg, order,
                      DisconnectMsgEncode(NewWriter, NewDisconnectMsg, order))

QueryEncoded(m, order, w) ==
    /\ wire.kind = "none"
    /\ wire' = Frame("Query", m, order, QueryMsgFixedSize, w)
    /\ UNCHANGED <<heap, bs, fuel, last, obs, hist>>

DoEncodeQuery(name, docs, order) ==
    QueryEncoded(NewQueryMsg(name, docs), order,
                 QueryMsgEncode(NewWriter, NewQueryMsg(name, docs), order))

InsertEncoded(m, order, w) ==
    /\ wire.kind = "none"
    /\ wire' = Frame("Insert", m, order, InsertMsgFixedSize, w)
    /\ UNCHANGED <<heap, bs, fuel, last, obs, hist>>

DoEncodeInsert(name, docs, order) ==
    InsertEncoded(NewInsertMsg(name, docs), order,
                 InsertMsgEncode(NewWriter, NewInsertMsg(name, docs), order))

DeleteEncoded(m, order, w) ==
    /\ wire.kind = "none"
    /\ wire' = Frame("Delete", m, order, DeleteMsgFixedSize, w)
    /\ UNCHANGED <<heap, bs, fuel, last, obs, hist>>

DoEncodeDelete(name, docs, order) ==
    DeleteEncoded(NewDeleteMsg(name, docs), order,
                 DeleteMsgEncode(NewWriter, NewDeleteMsg(name, docs), order))

UpdateEncoded(m, order, w) ==
    /\ wire.kind = "none"
    /\ wire' = Frame("Update", m, order, UpdateMsgFixedSize, w)
    /\ UNCHANGED <<heap, bs, fuel, last, obs, hist>>

DoEncodeUpdate(name, docs, order) ==
    UpdateEncoded(NewUpdateMsg(name, docs), order,
                 UpdateMsgEncode(NewWriter, NewUpdateMsg(name, docs), order))

InitWire == InitBuilder /\ fuel = [e |-> 0, b |-> 0, s |-> 0]

NextWire ==
    \/ \E o \in ByteOrders : DoEncodeDisconnect(o)
    \/ \E n \in CollectionNames, o \in ByteOrders,
          d \in [1..4 -> MaybeDocument] : DoEncodeQuery(n, d, o)
    \/ \E n \in CollectionNames, o \in ByteOrders,
          d \in [1..1 -> MaybeDocument] : DoEncodeInsert(n, d, o)
    \/ \E n \in CollectionNames, o \in ByteOrders,
          d \in [1..2 -> MaybeDocument] : DoEncodeDelete(n, d, o)
    \/ \E n \in CollectionNames, o \in ByteOrders,
          d \in [1..3 -> MaybeDocument] : DoEncodeUpdate(n, d, o)

SpecWire == InitWire /\ [][NextWire]_vars

(***************************************************************************)
(* The builder's contract.                                                 *)
(***************************************************************************)
Blocked(b) == bs[b].finished \/ bs[b].inChild

AllBuilders == 1..Len(bs)

\* Every append and Finish panics on builder b.
AllAbort(b) ==
    /\ ~Finish(Cur, b).ok
    /\ \A n \in Names :
         /\ \A v \in Float64Values : ~AppendFloat64(Cur, b, n, v).ok
         /\ \A v \in StringValues : ~AppendString(Cur, b, n, v).ok
         /\ \A v \in BinaryValues : ~AppendBinary(Cur, b, n, v).ok
         /\ \A v \in ObjectIdValues : ~AppendObjectId(Cur, b, n, v).ok
         /\ \A v \in BOOLEAN : ~AppendBool(Cur, b, n, v).ok
         /\ \A v \in DateValues : ~AppendDate(Cur, b, n, v).ok
         /\ ~AppendNull(Cur, b, n).ok
         /\ \A v \in RegexValues : ~AppendRegex(Cur, b, n, v).ok
         /\ \A v \in Int32Values : ~AppendInt32(Cur, b, n, v).ok
         /\ \A v \in TimestampValues : ~AppendTimestamp(Cur, b, n, v).ok
         /\ \A v \in Int64Values : ~AppendInt64(Cur, b, n, v).ok
         /\ ~AppendMinKey(Cur, b, n).ok
         /\ ~AppendMaxKey(Cur, b, n).ok
         /\ \A v \in AllBuilders : /\ ~AppendBson(Cur, b, n, v).ok
                                   /\ ~AppendArray(Cur, b, n, v).ok
         /\ ~AppendBsonStart(Cur, b, n).ok
         /\ ~AppendArrayStart(Cur, b, n).ok
         /\ \A v \in GenericValues \cup IntegerValues :
              ~BsonAppend(Cur, b, n, v).ok

\* C1: on a builder that is finished or has an open child, Finish, every
\* typed append, both Starts and the generic Append panic.
C1_BlockedBuilderAborts == \A b \in AllBuilders : Blocked(b) => AllAbort(b)

\* A parent with its child open, the child already finished and holding an
\* element: both are blocked, one by in_child, one by finished.
C1_Witness ==
    \E p \in AllBuilders :
        /\ bs[p].inChild
        /\ bs[bs[p].child].finished
        /\ bs[bs[p].child].len > bs[bs[p].child].offset + 5

\* C2: while Finish has not been called on the open child, AppendBsonEnd
\* and AppendArrayEnd panic (and so leave in_child set).
C2_EndNeedsFinishedChild ==
    \A b \in AllBuilders :
        (bs[b].inChild /\ ~bs[bs[b].child].finished)
            => ~AppendBsonEnd(Cur, b).ok /\ ~AppendArrayEnd(Cur, b).ok

\* Two builders write to the same backing array.
Sharing(a, b) == a # b /\ bs[a].arr = bs[b].arr

Appendable(b) == ~bs[b].finished /\ ~bs[b].inChild

\* C3: of the builders sharing a buffer at most one is able to append, and
\* a parent is able to append only when the child it opened last is finished.
C3_OneWriter ==
    /\ \A a, b \in AllBuilders :
         Sharing(a, b) => ~(Appendable(a) /\ Appendable(b))
    /\ \A c \in AllBuilders :
         (bs[c].parent # 0 /\ Appendable(bs[c].parent)) => bs[c].finished

\* C4: the Raw() of a finished builder is the same after every step.
C4_FinishedRawImmutable ==
    [][\A b \in AllBuilders :
         bs[b].finished => RawOf(heap', bs', b) = RawOf(heap, bs, b)]_vars

\* C5: the first four bytes of the Raw() of a finished builder, read as a
\* little-endian int32, are the number of bytes of that Raw().
C5_PrefixIsLength ==
    \A b \in AllBuilders :
        bs[b].finished => bytesToInt32(Raw(Cur, b)) = Len(Raw(Cur, b))

\* C6: on a builder that is not finished, Raw, Length, Map, Doc and
\* Validate fail, and so do AppendBson and AppendArray given it as value.
C6_UnfinishedNotObservable ==
    \A v \in AllBuilders :
        ~bs[v].finished =>
            /\ ~RawReturns(Cur, v)
            /\ ~Length(Cur, v).ok
            /\ ~Map(Cur, v).ok
            /\ ~Doc(Cur, v).ok
            /\ ~Validate(Cur, v)
            /\ \A b \in AllBuilders, n \in Names :
                 /\ ~AppendBson(Cur, b, n, v).ok
                 /\ ~AppendArray(Cur, b, n, v).ok

(***************************************************************************)
(* The generic Append on integers.  The value of the input is read off     *)
(* its own bits, widened to 64: v is in the int32 range when it is at      *)
(* most 2^31-1 if not negative and at least -2^31 if negative.             *)
(***************************************************************************)
SignedKinds == {"int8", "int16", "int32", "int64", "int"}

Wide(v) ==
    IF v.kind \in SignedKinds THEN SignExtend(v.bits, 8)
    ELSE ZeroExtend(v.bits, 8)

IsBelowZero(v) == v.kind \in SignedKinds /\ v.bits[1] >= 128

\* v > 2^63-1, which only an unsigned value can be
AboveInt64(v) == v.kind \notin SignedKinds /\ Wide(v)[1] >= 128

InInt32Range(v) ==
    IF IsBelowZero(v)
    THEN ~ULess(Wide(v), <<255, 255, 255, 255, 128, 0, 0, 0>>)
    ELSE ~ULess(<<0, 0, 0, 0, 127, 255, 255, 255>>, Wide(v))

\* A generic Append of an integer was made on a builder open to appends.
Called == last.kind = "Append" /\ ~last.blocked

\* The call returned and appended one element with tag t after what the
\* builder held.
AppendedTag(t) ==
    /\ last.ok
    /\ Len(last.post) > Len(last.pre)
    /\ SubSeq(last.post, 1, Len(last.pre)) = last.pre
    /\ last.post[Len(last.pre) + 1] = t

Aborted == ~last.ok /\ last.post = last.pre

\* C7: an integer of any integer kind is appended as Int32 exactly when it
\* lies in [-2^31, 2^31-1], as Int64 when it lies outside and fits in a
\* signed 64-bit integer, and an unsigned value above 2^63-1 aborts and
\* appends nothing.
C7_IntegerNarrowing ==
    Called =>
        /\ AppendedTag(BsonTypeInt32) <=> InInt32Range(last.arg)
        /\ (~InInt32Range(last.arg) /\ ~AboveInt64(last.arg))
               => AppendedTag(BsonTypeInt64)
        /\ AboveInt64(last.arg) => Aborted

\* An int64 outside the int32 range went in as Int64.
C7_Witness ==
    /\ Called
    /\ last.arg.kind = "int64"
    /\ ~InInt32Range(last.arg)
    /\ AppendedTag(BsonTypeInt64)

UnsignedWide == {"uint64", "uint", "uintptr"}

\* C8, as stated: a uint64, uint or uintptr is appended as Int64 whenever
\* it fits in a signed 64-bit integer, and aborts with the "no uint64 type"
\* message otherwise.
C8_UnsignedAsInt64 ==
    (Called /\ last.arg.kind \in UnsignedWide) =>
        /\ ~AboveInt64(last.arg) => AppendedTag(BsonTypeInt64)
        /\ AboveInt64(last.arg) => Aborted /\ last.msg = noUint64

\* C8, amended: a uint64, uint or uintptr is appended as Int32 when it is
\* at most 2^31-1, as Int64 when it is above 2^31-1 and fits in a signed
\* 64-bit integer, and aborts with the "no uint64 type" message otherwise.
C8_UnsignedNarrowed ==
    (Called /\ last.arg.kind \in UnsignedWide) =>
        /\ InInt32Range(last.arg) => AppendedTag(BsonTypeInt32)
        /\ (~InInt32Range(last.arg) /\ ~AboveInt64(last.arg))
               => AppendedTag(BsonTypeInt64)
        /\ AboveInt64(last.arg) => Aborted /\ last.msg = noUint64

\* A uint64 of at most 2^31-1 went in as Int32.
C8_Witness ==
    /\ Called
    /\ last.arg.kind = "uint64"
    /\ InInt32Range(last.arg)
    /\ AppendedTag(BsonTypeInt32)

(***************************************************************************)
(* The frames.                                                             *)
(***************************************************************************)
Written == wire.kind # "none"

\* C9: the length field at the head of the frame is the number of bytes
\* Encode wrote.
C9_LengthIsFrameSize ==
    Written => Uint32(wire.order, wire.w.out) = Len(wire.w.out)

\* An Update with a nil document, replaced by the empty one, and a name
\* that needs padding.
C9_Witness ==
    /\ wire.kind = "Update"
    /\ wire.NameLength = 2
    /\ Len(wire.w.docs) = 3
    /\ \E i \in 1..3 : wire.w.docs[i].len = 5
    /\ \E i \in 1..3 : wire.w.docs[i].len = 10

\* Where the bytes of the name end, and where document i ends.
NameEnd == wire.FixedSize + wire.NameLength

DocEnd(i) == wire.w.docs[i].at + wire.w.docs[i].len

ZeroBetween(from, to) == \A k \in (from + 1)..to : wire.w.out[k] = 0

\* C10: every embedded document starts at a multiple of 4 from the start
\* of the frame, and the bytes from the end of the name to the first
\* document and from each document to the next are zero.
C10_DocumentsAligned ==
    (Written /\ Len(wire.w.docs) > 0) =>
        /\ \A i \in 1..Len(wire.w.docs) : wire.w.docs[i].at % 4 = 0
        /\ wire.w.docs[1].at >= NameEnd
        /\ ZeroBetween(NameEnd, wire.w.docs[1].at)
        /\ \A i \in 1..(Len(wire.w.docs) - 1) :
             /\ wire.w.docs[i + 1].at >= DocEnd(i)
             /\ ZeroBetween(DocEnd(i), wire.w.docs[i + 1].at)

\* A Query with its four documents, one of them followed by three bytes
\* of padding.
C10_Witness ==
    /\ wire.kind = "Query"
    /\ Len(wire.w.docs) = 4
    /\ \E i \in 1..3 : wire.w.docs[i + 1].at = DocEnd(i) + 3

(***************************************************************************)
(* The SysInfo probe and the decoders.  A uint32 or uint64 that need not   *)
(* fit an int is a word; a reader r is the bytes still to be read.         *)
(***************************************************************************)
sysInfoSpecial == <<255, 255, 255, 255>>
sysInfoEyeCatcher == <<255, 254, 253, 252>>
sysInfoEyeCatcherRevert == <<252, 253, 254, 255>>

sysInfoMsgHeaderSize == 12

sysInfoRequestSize == sysInfoMsgHeaderSize

\* order.PutUint32 and order.PutUint64 of a value given as a word.
PutWord(order, v) == IF order = "BigEndian" THEN v ELSE Reverse(v)

\* order.Uint32 (n = 4) and order.Uint64 (n = 8) of the head of b, as a word.
Word(order, b, n) ==
    IF order = "BigEndian" THEN SubSeq(b, 1, n) ELSE Reverse(SubSeq(b, 1, n))

\* buf[k:]
From(b, k) == SubSeq(b, k + 1, Len(b))

\* io.ReadFull(r, buf) with len(buf) = n: the n bytes, or an error when the
\* stream ends before them.
ReadFull(r, n) ==
    IF Len(r) >= n THEN [ok |-> TRUE, buf |-> SubSeq(r, 1, n), r |-> From(r, n)]
    ELSE [ok |-> FALSE, buf |-> <<>>, r |-> <<>>]

NewSysInfoRequest ==
    [Special |-> sysInfoSpecial, EyeCatcher |-> sysInfoEyeCatcher,
     Length |-> sysInfoRequestSize]

SysInfoMsgHeaderEncode(w, m, order) ==
    Write(w, PutWord(order, m.Special) \o PutWord(order, m.EyeCatcher)
               \o PutUint32(order, m.Length))

NoSysInfo == [Special |-> <<>>, EyeCatcher |-> <<>>, Length |-> 0]

SysInfoMsgHeaderDecode(r, order) ==
    IF ~ReadFull(r, 12).ok
    THEN [err |-> "EOF", r |-> ReadFull(r, 12).r, m |-> NoSysInfo]
    ELSE [err |-> "", r |-> ReadFull(r, 12).r,
          m |-> [Special |-> Word(order, ReadFull(r, 12).buf, 4),
                 EyeCatcher |-> Word(order, From(ReadFull(r, 12).buf, 4), 4),
                 Length |-> Uint32(order, From(ReadFull(r, 12).buf, 8))]]

NoHeader ==
    [Length |-> 0, OpCode |-> <<>>, Tid |-> <<>>, RouteId |-> <<>>,
     RequestId |-> <<>>]

\* The header read with RouteId and RequestId taken from each other's place.
MsgHeaderDecodeSwapped(r, order) ==
    IF ~ReadFull(r, msgHeaderSize).ok
    THEN [err |-> "EOF", r |-> ReadFull(r, msgHeaderSize).r, m |-> NoHeader]
    ELSE [err |-> "", r |-> ReadFull(r, msgHeaderSize).r,
          m |-> [Length |-> Uint32(order, ReadFull(r, msgHeaderSize).buf),
                 OpCode |-> Word(order, From(ReadFull(r, msgHeaderSize).buf, 4), 4),
                 Tid |-> Word(order, From(ReadFull(r, msgHeaderSize).buf, 8), 4),
                 RouteId |-> Word(order, From(ReadFull(r, msgHeaderSize).buf, 20), 8),
                 RequestId |-> Word(order, From(ReadFull(r, msgHeaderSize).buf, 12), 8)]]

MsgHeaderDecode(r, order) ==
    IF ~ReadFull(r, msgHeaderSize).ok
    THEN [err |-> "EOF", r |-> ReadFull(r, msgHeaderSize).r, m |-> NoHeader]
    ELSE [err |-> "", r |-> ReadFull(r, msgHeaderSize).r,
          m |-> [Length |-> Uint32(order, ReadFull(r, msgHeaderSize).buf),
                 OpCode |-> Word(order, From(ReadFull(r, msgHeaderSize).buf, 4), 4),
                 Tid |-> Word(order, From(ReadFull(r, msgHeaderSize).buf, 8), 4),
                 RouteId |-> Word(order, From(ReadFull(r, msgHeaderSize).buf, 12), 8),
                 RequestId |-> Word(order, From(ReadFull(r, msgHeaderSize).buf, 20), 8)]]

\* What the receiver of a probe does with the eye-catcher it read: keep its
\* byte order, or take the other one when it reads the reverted constant.
Flip(order) == IF order = "BigEndian" THEN "LittleEndian" ELSE "BigEndian"

Negotiated(order, m) ==
    IF m.EyeCatcher = sysInfoEyeCatcherRevert THEN Flip(order) ELSE order

\* The operation headers a sender puts on the connection.
HeaderValues ==
    [Length : {msgHeaderSize, 16909060}, OpCode : {QueryReqMsg, DisconnectReqMsg},
     Tid : {0, 258}, RouteId : {0, 16909060}, RequestId : {1, 2147483647}]

MaxHeaders == 1

\* A connection: the sender's byte order, the receiver's now and at the
\* start, the bytes on the way, the probe and the header last read, the
\* header last sent and how many headers went through.
Connection(kind, send, recv, init, r, probe, sent, got, n) ==
    [kind |-> kind, send |-> send, recv |-> recv, init |-> init, r |-> r,
     probe |-> probe, sent |-> sent, got |-> got, n |-> n]

\* The sender encodes the SysInfo request in its byte order.
DoSendSysInfo(send, recv) ==
    /\ obs.kind = "none"
    /\ obs' = Connection("probe", send, recv, recv,
                         SysInfoMsgHeaderEncode(NewWriter, NewSysInfoRequest,
                                                send).out,
                         NoSysInfo, NoHeader, NoHeader, 0)
    /\ UNCHANGED <<heap, bs, fuel, last, wire, hist>>

\* The receiver decodes it in its own byte order and settles the order.
DoRecvSysInfo ==
    /\ obs.kind = "probe"
    /\ SysInfoMsgHeaderDecode(obs.r, obs.recv).err = ""
    /\ obs' = [obs EXCEPT
                 !.kind = "ready",
                 !.r = SysInfoMsgHeaderDecode(obs.r, obs.recv).r,
                 !.probe = SysInfoMsgHeaderDecode(obs.r, obs.recv).m,
                 !.recv = Negotiated(obs.recv,
                              SysInfoMsgHeaderDecode(obs.r, obs.recv).m)]
    /\ UNCHANGED <<heap, bs, fuel, last, wire, hist>>

\* The sender encodes an operation header.
DoSendHeader(m) ==
    /\ obs.kind = "ready"
    /\ obs.n < MaxHeaders
    /\ obs' = [obs EXCEPT !.kind = "header", !.sent = m,
                          !.r = MsgHeaderEncode(NewWriter, m, obs.send).out]
    /\ UNCHANGED <<heap, bs, fuel, last, wire, hist>>

\* The receiver decodes it in the order it settled on.
DoRecvHeader ==
    /\ obs.kind = "header"
    /\ MsgHeaderDecode(obs.r, obs.recv).err = ""
    /\ obs' = [obs EXCEPT !.kind = "ready", !.n = @ + 1,
                          !.r = MsgHeaderDecode(obs.r, obs.recv).r,
                          !.got = MsgHeaderDecode(obs.r, obs.recv).m]
    /\ UNCHANGED <<heap, bs, fuel, last, wire, hist>>

NextSysInfo ==
    \/ \E send \in ByteOrders, recv \in ByteOrders : DoSendSysInfo(send, recv)
    \/ DoRecvSysInfo
    \/ \E m \in HeaderValues : DoSendHeader(m)
    \/ DoRecvHeader

SpecSysInfo == InitWire /\ [][NextSysInfo]_vars

\* A probe was read by a receiver that started in the other byte order.
ProbedAcross == obs.kind \in {"ready", "header"} /\ obs.init # obs.send

\* A header was read by a receiver that has the sender's byte order.
HeaderRead == obs.kind = "ready" /\ obs.n > 0 /\ obs.recv = obs.send

\* C11: a SysInfo request read in the byte order opposite to the one it
\* was written in shows special 0xFFFFFFFF and eye-catcher 0xFCFDFEFF, and
\* the receiver then has the sender's byte order; a header read in the
\* sender's byte order has the length, opcode, tid, route id and request
\* id that were written.
C11_EndianNegotiation ==
    /\ ProbedAcross =>
         /\ obs.probe.Special = sysInfoSpecial
         /\ obs.probe.EyeCatcher = sysInfoEyeCatcherRevert
         /\ obs.recv = obs.send
    /\ HeaderRead =>
         /\ obs.got.Length = obs.sent.Length
         /\ obs.got.OpCode = ToWord32(obs.sent.OpCode)
         /\ obs.got.Tid = ToWord32(obs.sent.Tid)
         /\ obs.got.RouteId = ZeroExtend(ToWord32(obs.sent.RouteId), 8)
         /\ obs.got.RequestId = ZeroExtend(ToWord32(obs.sent.RequestId), 8)

\* A big-endian receiver flipped for a little-endian sender and read a
\* header whose fields all have bytes that differ.
C11_Witness ==
    /\ ProbedAcross
    /\ HeaderRead
    /\ obs.send = "LittleEndian"
    /\ obs.sent.Length = 16909060
    /\ obs.sent.RouteId = 16909060
    /\ obs.got.RouteId = <<0, 0, 0, 0, 1, 2, 3, 4>>

(***************************************************************************)
(* ReplyMsg.Decode.                                                        *)
(***************************************************************************)
ReplyMsgSize == msgHeaderSize + 20

\* The length test taken with the bound itself rejected.
lengthAtMostSize(length) == length <= ReplyMsgSize

\* m.Length < m.Size()
lengthBelowSize(length) == length < ReplyMsgSize

\* What a Decode call gives: the error, what is left of the stream, the
\* header, the body's fields and the bytes read for the trailing document.
Decoded(err, r, header, ContextId, Flags, StartFrom, ReturnNum, tail) ==
    [err |-> err, r |-> r, header |-> header, ContextId |-> ContextId,
     Flags |-> Flags, StartFrom |-> StartFrom, ReturnNum |-> ReturnNum,
     tail |-> tail]

\* The part of Decode after the 20 bytes of the body were read.
ReplyMsgDecodeBody(h, rd, order) ==
    LET ContextId == Word(order, rd.buf, 8)
        Flags == Uint32(order, From(rd.buf, 8))
        StartFrom == Uint32(order, From(rd.buf, 12))
        ReturnNum == Uint32(order, From(rd.buf, 16))
        doc == ReadFull(rd.r, h.m.Length - ReplyMsgSize)
    IN  IF Flags = 0
        THEN Decoded("", rd.r, h.m, ContextId, Flags, StartFrom, ReturnNum, <<>>)
        ELSE IF ~doc.ok
        THEN Decoded("EOF", doc.r, h.m, ContextId, Flags, StartFrom, ReturnNum,
                     <<>>)
        ELSE Decoded("", doc.r, h.m, ContextId, Flags, StartFrom, ReturnNum,
                     doc.buf)

ReplyMsgDecode(r, order) ==
    LET h == MsgHeaderDecode(r, order)
        rd == ReadFull(h.r, 20)
    IN  IF h.err # "" THEN Decoded(h.err, h.r, h.m, <<>>, 0, 0, 0, <<>>)
        ELSE IF lengthBelowSize(h.m.Length)
        THEN Decoded("invalid msg length", h.r, h.m, <<>>, 0, 0, 0, <<>>)
        ELSE IF ~rd.ok THEN Decoded("EOF", rd.r, h.m, <<>>, 0, 0, 0, <<>>)
        ELSE ReplyMsgDecodeBody(h, rd, order)

\* The replies put on the stream: the declared length and the flags as
\* uint32 words, and how many bytes of the stream arrive.
ReplyLengths ==
    {<<0, 0, 0, 0>>, <<0, 0, 0, 28>>, <<0, 0, 0, 47>>, <<0, 0, 0, 48>>,
     <<0, 0, 0, 49>>, <<0, 0, 0, 53>>, <<255, 255, 255, 255>>,
     <<128, 0, 0, 53>>}

ReplyFlags == {<<0, 0, 0, 0>>, <<0, 0, 0, 1>>, <<255, 255, 255, 252>>, <<0, 1, 0, 0>>}

ReplyArrived == {28, 38, 48, 49, 53, 56}

ReplyStream(order, length, flags) ==
    PutWord(order, length) \o PutUint32(order, 2008) \o PutUint32(order, 258)
      \o PutUint64(order, 0) \o PutUint64(order, 1)
      \o PutWord(order, <<255, 255, 255, 255, 255, 255, 255, 255>>)
      \o PutWord(order, flags) \o PutUint32(order, 0) \o PutUint32(order, 7)
      \o <<5, 0, 0, 0, 0, 9, 9, 9>>

\* One reply is decoded from the first n bytes of a fresh stream.
ReplyDecoded(order, length, flags, r, d) ==
    /\ obs.kind = "none"
    /\ obs' = [kind |-> "reply", order |-> order, length |-> length,
               flags |-> flags, stream |-> r, d |-> d,
               read |-> SubSeq(r, 1, Len(r) - Len(d.r))]
    /\ UNCHANGED <<heap, bs, fuel, last, wire, hist>>

DoDecodeReply(order, length, flags, n) ==
    ReplyDecoded(order, length, flags,
                 SubSeq(ReplyStream(order, length, flags), 1, n),
                 ReplyMsgDecode(SubSeq(ReplyStream(order, length, flags), 1, n),
                                order))

NextReply ==
    \E order \in ByteOrders, length \in ReplyLengths, flags \in ReplyFlags,
       n \in ReplyArrived :
        DoDecodeReply(order, length, flags, n)

SpecReply == InitWire /\ [][NextReply]_vars

\* The declared length of the reply that was decoded, as the int32 it is.
DeclaredLength == bytesToInt32(Reverse(obs.length))

FlagsZero == obs.flags = <<0, 0, 0, 0>>

\* The stream holds everything the declared length and the flags call for.
ReplyComplete ==
    Len(obs.stream) >= (IF FlagsZero THEN ReplyMsgSize ELSE DeclaredLength)

\* C12: a reply whose declared length is below 48 is rejected with the
\* invalid-length error after the 28 bytes of the header and nothing more;
\* a reply of declared length 48 or more that is all on the stream is
\* accepted; with flags 0 exactly the 48 bytes of header and body are
\* read, with flags other than 0 the length-48 bytes after them are read
\* as the trailing document and nothing after them.
C12_ReplyLength ==
    obs.kind = "reply" =>
      /\ DeclaredLength < 48 =>
           /\ obs.d.err = "invalid msg length"
           /\ obs.read = SubSeq(obs.stream, 1, 28)
      /\ (DeclaredLength >= 48 /\ ReplyComplete) =>
           /\ obs.d.err = ""
           /\ FlagsZero =>
                obs.read = SubSeq(obs.stream, 1, 48) /\ obs.d.tail = <<>>
           /\ ~FlagsZero =>
                /\ obs.read = SubSeq(obs.stream, 1, DeclaredLength)
                /\ obs.d.tail = SubSeq(obs.stream, 49, DeclaredLength)
                /\ Len(obs.d.tail) = DeclaredLength - 48

\* A reply of declared length 53 with flags set was decoded from a stream
\* that goes on after it, and its five trailing bytes were read.
C12_Witness ==
    /\ obs.kind = "reply"
    /\ DeclaredLength = 53
    /\ ~FlagsZero
    /\ Len(obs.stream) = 56
    /\ obs.d.err = ""
    /\ obs.d.tail = <<5, 0, 0, 0, 0>>

(***************************************************************************)
(* Documents built call by call, with the calls written down in hist.      *)
(***************************************************************************)
hello == <<104, 101, 108, 108, 111>>
world == <<119, 111, 114, 108, 100>>
nested == <<110, 101, 115, 116, 101, 100>>
xName == <<120>>

MaxHist == 5

\* A call as it is written down.
Call(op, b, name, str, flag) ==
    [op |-> op, b |-> b, name |-> name, str |-> str, flag |-> flag]

\* A call c that ended as r.
Logged(c, r) ==
    /\ Len(hist) < MaxHist
    /\ r.ok
    /\ heap' = r.heap
    /\ bs' = r.bs
    /\ hist' = Append(hist, c)
    /\ UNCHANGED <<fuel, last, wire, obs>>

LogAppendString(b, name, v) ==
    Logged(Call("AppendString", b, name, v, FALSE), AppendString(Cur, b, name, v))

LogAppendBool(b, name, v) ==
    Logged(Call("AppendBool", b, name, <<>>, v), AppendBool(Cur, b, name, v))

LogAppendBsonStart(b, name) ==
    Logged(Call("AppendBsonStart", b, name, <<>>, FALSE),
           AppendBsonStart(Cur, b, name))

LogAppendBsonEnd(b) ==
    Logged(Call("AppendBsonEnd", b, <<>>, <<>>, FALSE), AppendBsonEnd(Cur, b))

LogFinish(b) ==
    Logged(Call("Finish", b, <<>>, <<>>, FALSE), Finish(Cur, b))

NextLog ==
    \/ \E b \in Builders, v \in {world, <<>>} : LogAppendString(b, hello, v)
    \/ \E b \in Builders, v \in BOOLEAN : LogAppendBool(b, xName, v)
    \/ \E b \in Builders : LogAppendBsonStart(b, nested)
    \/ \E b \in Builders : LogAppendBsonEnd(b)
    \/ \E b \in Builders : LogFinish(b)

SpecLog == InitWire /\ [][NextLog]_vars

\* b := NewBson(); b.AppendString("hello", "world"); b.Finish()
HelloWorld ==
    hist = << Call("AppendString", 1, hello, world, FALSE),
              Call("Finish", 1, <<>>, <<>>, FALSE) >>

\* C13 as stated: {"hello":"world"} is the 22 bytes that start with the
\* length prefix 1B 00 00 00.
C13_HelloWorldAsStated ==
    HelloWorld =>
      Raw(Cur, 1) = <<27, 0, 0, 0, 2, 104, 101, 108, 108, 111, 0,
                      6, 0, 0, 0, 119, 111, 114, 108, 100, 0, 0>>

\* C13: {"hello":"world"} is the 22 bytes 16 00 00 00 02 68 65 6C 6C 6F 00
\* 06 00 00 00 77 6F 72 6C 64 00 00: the prefix holds the length, 22.
C13_HelloWorld ==
    HelloWorld =>
      /\ Len(Raw(Cur, 1)) = 22
      /\ Raw(Cur, 1) = <<22, 0, 0, 0, 2, 104, 101, 108, 108, 111, 0,
                         6, 0, 0, 0, 119, 111, 114, 108, 100, 0, 0>>

C13_Witness == HelloWorld /\ bs[1].finished

\* b := NewBson(); c := b.AppendBsonStart("nested"); c.AppendBool("x", true);
\* c.Finish(); b.AppendBsonEnd(); b.Finish()
NestedTrue ==
    hist = << Call("AppendBsonStart", 1, nested, <<>>, FALSE),
              Call("AppendBool", 2, xName, <<>>, TRUE),
              Call("Finish", 2, <<>>, <<>>, FALSE),
              Call("AppendBsonEnd", 1, <<>>, <<>>, FALSE),
              Call("Finish", 1, <<>>, <<>>, FALSE) >>

\* The bytes of the outer document after the tag and the name of its
\* single element, without the outer terminator.
NestedBytes == SubSeq(Raw(Cur, 1), 4 + 1 + Len(nested) + 1 + 1, Len(Raw(Cur, 1)) - 1)

\* C14 as stated: the outer prefix is 22 and the nested document is
\* 0C 00 00 00 08 78 00 01 00.
C14_NestedAsStated ==
    NestedTrue =>
      /\ bytesToInt32(Raw(Cur, 1)) = 22
      /\ NestedBytes = <<12, 0, 0, 0, 8, 120, 0, 1, 0>>

\* C14: the outer prefix is 22 and the nested document is the nine bytes
\* 09 00 00 00 08 78 00 01 00, which are also the child's own bytes.
C14_Nested ==
    NestedTrue =>
      /\ bytesToInt32(Raw(Cur, 1)) = 22
      /\ Len(Raw(Cur, 1)) = 22
      /\ NestedBytes = <<9, 0, 0, 0, 8, 120, 0, 1, 0>>
      /\ Raw(Cur, 2) = NestedBytes

C14_Witness == NestedTrue /\ bs[1].finished /\ bs[2].finished

(***************************************************************************)
(* The byte orders of package bson and RevertInt32, on int32 values.       *)
(***************************************************************************)
\* byte(u >> (8 * k)) for u := uint32(v)
ByteAt(v, k) ==
    IF k = 0 THEN v % 256
    ELSE IF k = 1 THEN (v \div 256) % 256
    ELSE IF k = 2 THEN (v \div 65536) % 256
    ELSE (v \div 16777216) % 256

littleEndianAppendInt32(b, v) ==
    b \o <<ByteAt(v, 0), ByteAt(v, 1), ByteAt(v, 2), ByteAt(v, 3)>>

\* bigEndian.AppendInt32 with the two middle bytes left in place.
bigEndianAppendInt32Ends(b, v) ==
    b \o <<ByteAt(v, 3), ByteAt(v, 1), ByteAt(v, 2), ByteAt(v, 0)>>

bigEndianAppendInt32(b, v) ==
    b \o <<ByteAt(v, 3), ByteAt(v, 2), ByteAt(v, 1), ByteAt(v, 0)>>

\* The int32 whose lowest byte is the highest byte of v, and so on.
RevertInt32(v) ==
    ByteAt(v, 3) + 256 * ByteAt(v, 2) + 65536 * ByteAt(v, 1)
      + 16777216 * (IF ByteAt(v, 0) >= 128 THEN ByteAt(v, 0) - 256
                    ELSE ByteAt(v, 0))

\* int32 values: every combination of these bytes.
RevertBytes == {0, 10, 13, 128, 235, 236, 255}

Int32Inputs == {bytesToInt32(w) : w \in [1..4 -> RevertBytes]}

\* RevertInt32(v) is called once, and its result is reverted again.
DoRevertInt32(v) ==
    /\ obs.kind = "none"
    /\ obs' = [kind |-> "revert", x |-> v, r |-> RevertInt32(v),
               rr |-> RevertInt32(RevertInt32(v))]
    /\ UNCHANGED <<heap, bs, fuel, last, wire, hist>>

NextRevert == \E v \in Int32Inputs : DoRevertInt32(v)

SpecRevert == InitWire /\ [][NextRevert]_vars

\* C15: the bytes of RevertInt32(x) are those of x in the opposite order:
\* the big-endian encoding of x is the little-endian encoding of
\* RevertInt32(x), reverting twice gives x back, and
\* RevertInt32(0x0AEBEC0D) = 0x0DECEB0A.
C15_RevertInt32 ==
    obs.kind = "revert" =>
      /\ bigEndianAppendInt32(<<>>, obs.x) = littleEndianAppendInt32(<<>>, obs.r)
      /\ littleEndianAppendInt32(<<>>, obs.r)
           = Reverse(littleEndianAppendInt32(<<>>, obs.x))
      /\ obs.rr = obs.x
      /\ obs.x = 183233549 => obs.r = 233630474

\* 0x0AEBEC0D was reverted.
C15_Witness ==
    /\ obs.kind = "revert"
    /\ obs.x = 183233549
    /\ littleEndianAppendInt32(<<>>, obs.x) = <<13, 236, 235, 10>>
    /\ obs.r = 233630474

(***************************************************************************)
(* Appends that may abort: each call is kept in obs with the receiver's    *)
(* bytes and flags before and after it.                                    *)
(***************************************************************************)
\* What a caller can see of builder b in state st.
Seen(st, b) ==
    [raw |-> Raw(st, b), inChild |-> st.bs[b].inChild,
     finished |-> st.bs[b].finished]

\* Values that make an append abort, and some that do not; AbortValues
\* lists the arguments of the generic Append.
TooLarge == [kind |-> "uint64", bits |-> <<128, 0, 0, 0, 0, 0, 0, 0>>]

Unsupported == [kind |-> "chan"]

NullBinary == [isNil |-> TRUE, Subtype |-> 0, Data |-> <<>>]

Holding(kind, v) == [kind |-> kind, elems |-> << [name |-> <<120>>, value |-> v] >>]

AbortValues ==
    << TooLarge, Unsupported,
      [kind |-> "orderKey", val |-> "none"],
      [kind |-> "ObjectId", val |-> Zeros(12)],
      [kind |-> "Binary", val |-> NullBinary],
      [kind |-> "int", bits |-> <<0, 0, 0, 1>>],
      Holding("Map", TooLarge), Holding("Doc", Unsupported),
      Holding("slice", TooLarge), Holding("array", Unsupported),
      Holding("map", [kind |-> "ObjectId", val |-> Zeros(12)]),
      Holding("struct", [kind |-> "Binary", val |-> NullBinary]),
      Holding("Map", [kind |-> "bool", val |-> TRUE]),
      Holding("Map", Holding("Map", TooLarge)),
      [kind |-> "ptr", isNil |-> FALSE, elem |-> TooLarge],
      [kind |-> "ptr", isNil |-> FALSE, elem |-> Holding("Map", TooLarge)] >>

\* A call op on b with an argument of kind k that ended as r.
Tried(op, b, k, nestedArg, r) ==
    /\ Spend(1, 0)
    /\ heap' = r.heap
    /\ bs' = r.bs
    /\ obs' = [kind |-> "call", op |-> op, b |-> b, arg |-> k,
               nestedArg |-> nestedArg, ok |-> r.ok, msg |-> r.msg,
               pre |-> Seen(Cur, b), post |-> Seen(St(r), b)]
    /\ UNCHANGED <<last, wire, hist>>

TryAppendObjectId(b, name, v) ==
    Tried("AppendObjectId", b, "ObjectId", FALSE, AppendObjectId(Cur, b, name, v))

TryAppendBinary(b, name, v) ==
    Tried("AppendBinary", b, "Binary", FALSE, AppendBinary(Cur, b, name, v))

TryAppendString(b, name, v) ==
    Tried("AppendString", b, "string", FALSE, AppendString(Cur, b, name, v))

\* The kinds whose elements are appended one by one to a child builder.
Containers == {"Map", "Doc", "slice", "array", "map", "struct"}

\* v is a container, or a pointer to one.
HoldsElements(v) ==
    \/ v.kind \in Containers
    \/ v.kind = "ptr" /\ ~v.isNil /\ v.elem.kind \in Containers

TryAppend(b, name, v) ==
    Tried("Append", b, v.kind, HoldsElements(v), BsonAppend(Cur, b, name, v))

NextTry ==
    \/ \E b \in Builders, n \in Names, v \in ObjectIdValues :
          TryAppendObjectId(b, n, v)
    \/ \E b \in Builders, n \in Names, v \in BinaryValues :
          TryAppendBinary(b, n, v)
    \/ \E b \in Builders, n \in Names, v \in StringValues :
          TryAppendString(b, n, v)
    \/ \E b \in Builders, n \in Names, i \in 1..Len(AbortValues) :
          TryAppend(b, n, AbortValues[i])
    \/ \E b \in Builders : DoFinish(b)
    \/ \E b \in Builders, n \in Names : DoAppendBsonStart(b, n)

MaxTries == 2

InitTry ==
    /\ InitBuilder
    /\ fuel = [e |-> MaxTries, b |-> 1, s |-> MaxTries + 2]

SpecTry == InitTry /\ [][NextTry]_vars

\* The call kept in obs aborted.
TriedAndAborted == obs.kind = "call" /\ ~obs.ok

\* C16: an append that aborts leaves the builder as it was before the
\* call: the same bytes, the same in_child, the same finished, for the
\* typed appends and for the generic Append, also when the value that
\* fails is an element of a container being appended.
C16_AbortLeavesBuilder == TriedAndAborted => obs.post = obs.pre

\* The same for the typed appends and for a generic Append whose own
\* argument, not an element inside it, fails.
C16_AbortAtTopLeavesBuilder ==
    (TriedAndAborted /\ ~obs.nestedArg) => obs.post = obs.pre

\* A typed append aborted on an invalid ObjectId on a builder that was
\* open for appends.
C16_WitnessTop ==
    /\ TriedAndAborted
    /\ obs.op = "AppendObjectId"
    /\ ~obs.pre.inChild /\ ~obs.pre.finished

\* A generic Append of a Map aborted on an element inside the Map and left
\* the receiver with an open child and more bytes than before.
C16_WitnessNested ==
    /\ TriedAndAborted
    /\ obs.op = "Append" /\ obs.arg = "Map"
    /\ ~obs.pre.inChild /\ obs.post.inChild
    /\ Len(obs.post.raw) > Len(obs.pre.raw)

====
